---- MODULE Spec2Model ----
(***************************************************************************)
(* Railway gap filler: the two Arduino sketches of the repository.         *)
(*                                                                         *)
(*   "debounced"  railway_gap_filler.ino : three-band debounced controller *)
(*                with two servos, two LEDs and stepped sweeps.            *)
(*   "simple"     the single-threshold sketch (one servo, no debounce).    *)
(*                                                                         *)
(* A board runs exactly one sketch; `sketch' is fixed by Init.             *)
(*                                                                         *)
(* Distances of the debounced sketch are floats  duration * 0.0343 / 2.    *)
(* They are kept exactly as integers in units of 1/DistScale cm, i.e.      *)
(* distance = duration * SpeedNum, and every comparison with a constant c  *)
(* is made against c * DistScale.  No integer duration maps onto one of    *)
(* the compared constants (13, 20, 25), and the nearest ones are more than *)
(* 0.0003 cm away, far above float rounding, so the comparisons are exact. *)
(***************************************************************************)
EXTENDS Integers, Sequences, FiniteSets, TLC

\* ---------------------------------------------------------------- constants
THRESHOLD_DISTANCE == 20
MIN_DISTANCE == 13
MAX_DISTANCE == 25
SERVO_RETRACTED == 0
SERVO_EXTENDED == 90
DEBOUNCE_COUNT == 3
LOW == 0
HIGH == 1

\* 0.0343 / 2 = 343 / 20000
SpeedNum == 343
DistScale == 20000
\* value returned by measureDistance when pulseIn timed out
TimeoutDistance == 999

\* simple sketch: 0.034 / 2 = 17 / 1000, threshold literal 25, angles 90 / 0
SimpleSpeedNum == 17
SimpleSpeedDen == 1000
SimpleThreshold == 25
SimpleExtended == 90
SimpleRetracted == 0

\* timing parameters and the literal arguments of delay() / playBeep()
MEASUREMENT_DELAY == 100
StepDelay == 15
SetupDelay == 1000
DeployAlertBeep == 200
RetractAlertBeep == 150
SuccessBeep == 100

\* timeout argument of pulseIn (microseconds)
PulseTimeout == 30000

\* last angle of a Servo object that has not been written yet
NoAngle == -1

\* ------------------------------------------------------------------- bounds
\* width in bits of the two debounce counters (int is 16 bits on the target)
IntBits == 4
MaxInt == 2 ^ (IntBits - 1) - 1
MinInt == 0 - 2 ^ (IntBits - 1)

\* echo pulse widths (microseconds) returned by pulseIn(ECHO_PIN, HIGH, 30000):
\* 0 = timeout; 583 ~ 10.0 cm; 758 ~ 12.9997; 759 ~ 13.017; 1050 ~ 18.008;
\* 1166 ~ 19.997; 1167 ~ 20.014; 1457 ~ 24.988; 1458 ~ 25.005; 2041 ~ 35.003 cm
Durations == {0, 583, 758, 759, 1050, 1166, 1167, 1457, 1458, 2041}

\* echo pulse widths of the simple sketch (pulseIn without timeout argument):
\* 0 = no echo; 30, 58 -> 0 cm; 59 -> 1; 589 -> 10; 1470 -> 24; 1471 -> 25;
\* 1765 -> 30 cm
SimpleDurations == {0, 30, 58, 59, 589, 1470, 1471, 1765}

\* number of most recent samples remembered by the observer variable hist
HistLen == DEBOUNCE_COUNT + 1

VARIABLES
  sketch,                  \* which sketch is flashed
  pc,                      \* position in setup()/loop()/deployPlatform()/...
  duration,                \* measureDistance: long duration
  distance,                \* float distance (scaled by DistScale)
  platformDeployed,        \* bool platformDeployed
  consecutiveDetections,   \* int consecutiveDetections
  consecutiveNoDetections, \* int consecutiveNoDetections
  servo1, servo2,          \* last angle written to servo1 / servo2
  ledGreen, ledRed,        \* level of LED_GREEN / LED_RED
  angle,                   \* loop variable of the sweep in progress
  hist,                    \* observer: last HistLen samples, each with the
                           \*   value of platformDeployed when it was taken
  branch,                  \* observer: branch of loop() taken this iteration
  sweep,                   \* observer: sweep started this iteration
  lastDelay,               \* observer: argument of the last delay() call
  iterTrace,               \* observer: what this iteration of loop() has
                           \*   done so far (sample, branch, sweep)
  lastSweep,               \* observer: the most recent sweep started so far
  simpleDuration,          \* simple sketch: long duration
  simpleDistance,          \* simple sketch: long distance (cm, truncated)
  platformServo,           \* simple sketch: last angle written
  simplePrev               \* observer: distance of the previous iteration

vars == <<sketch, pc, duration, distance, platformDeployed,
          consecutiveDetections, consecutiveNoDetections, servo1, servo2,
          ledGreen, ledRed, angle, hist, branch, sweep, lastDelay,
          iterTrace, lastSweep, simpleDuration, simpleDistance, platformServo, simplePrev>>

simpleVars == <<simpleDuration, simpleDistance, platformServo, simplePrev>>
outputVars == <<servo1, servo2, ledGreen, ledRed>>
counterVars == <<consecutiveDetections, consecutiveNoDetections>>
observerVars == <<hist, branch, sweep>>

\* ------------------------------------------------------------------ helpers
\* faulty variant: the timeout is returned as the computed distance 0
measureDistance_NoSentinel(t) == t * SpeedNum

\* faulty variant: the round trip is not halved
measureDistance_FullTrip(t) ==
  IF t = 0 THEN TimeoutDistance * DistScale ELSE t * 2 * SpeedNum

\* float dist = (duration * 0.0343) / 2;  if (duration == 0) return 999;
measureDistance(t) ==
  IF t = 0 THEN TimeoutDistance * DistScale ELSE t * SpeedNum

\* c++ on an int of IntBits bits: signed overflow is undefined behaviour, so
\* the result of incrementing MaxInt is any representable value.
Increment(c) == IF c < MaxInt THEN {c + 1} ELSE MinInt .. MaxInt

\* faulty variant: the lower limit MIN_DISTANCE is not tested
InBand_NoMin(d) == d <= THRESHOLD_DISTANCE * DistScale

\* distance >= MIN_DISTANCE && distance <= THRESHOLD_DISTANCE
InBand(d) == d >= MIN_DISTANCE * DistScale /\ d <= THRESHOLD_DISTANCE * DistScale

\* distance > MAX_DISTANCE
Far(d) == d > MAX_DISTANCE * DistScale

\* faulty variant: deploys one sample late
ShouldDeploy_Late(cd, dep) == cd > DEBOUNCE_COUNT /\ ~dep

\* faulty variant: the !platformDeployed guard is missing
ShouldDeploy_Unguarded(cd, dep) == cd >= DEBOUNCE_COUNT

\* consecutiveDetections >= DEBOUNCE_COUNT && !platformDeployed
ShouldDeploy(cd, dep) == cd >= DEBOUNCE_COUNT /\ ~dep

\* faulty variant: retracts one sample late
ShouldRetract_Late(cnd, dep) == cnd > DEBOUNCE_COUNT /\ dep

\* faulty variant: retracts one sample early
ShouldRetract_Early(cnd, dep) == cnd >= DEBOUNCE_COUNT - 1 /\ dep

\* consecutiveNoDetections >= DEBOUNCE_COUNT && platformDeployed
ShouldRetract(cnd, dep) == cnd >= DEBOUNCE_COUNT /\ dep

Remember(h, s) ==
  LET a == Append(h, s)
  IN IF Len(a) > HistLen THEN Tail(a) ELSE a

\* --------------------------------------------------------------------- Init
Init ==
  /\ sketch \in {"debounced", "simple"}
  /\ pc = "setup"
  /\ duration = 0
  /\ distance = 0
  /\ platformDeployed = FALSE
  /\ consecutiveDetections = 0
  /\ consecutiveNoDetections = 0
  /\ servo1 = NoAngle
  /\ servo2 = NoAngle
  /\ ledGreen = LOW
  /\ ledRed = LOW
  /\ angle = 0
  /\ hist = <<>>
  /\ branch = "none"
  /\ sweep = "none"
  /\ lastDelay = 0
  /\ iterTrace = <<>>
  /\ lastSweep = "none"
  /\ simpleDuration = 0
  /\ simpleDistance = 0
  /\ platformServo = NoAngle
  /\ simplePrev = 0

\* faulty variant: setup() forgets servo2.write(SERVO_RETRACTED)
Setup_OneServo ==
  /\ sketch = "debounced"
  /\ pc = "setup"
  /\ servo1' = SERVO_RETRACTED
  /\ ledGreen' = HIGH
  /\ ledRed' = LOW
  /\ pc' = "measure"
  /\ UNCHANGED <<sketch, duration, distance, platformDeployed, counterVars,
                 servo2, angle, observerVars, simpleVars>>
  /\ lastDelay' = SetupDelay
  /\ UNCHANGED iterTrace
  /\ UNCHANGED lastSweep

\* ------------------------------------------------- debounced sketch: setup()
Setup ==
  /\ sketch = "debounced"
  /\ pc = "setup"
  /\ servo1' = SERVO_RETRACTED
  /\ servo2' = SERVO_RETRACTED
  /\ ledGreen' = HIGH
  /\ ledRed' = LOW
  /\ pc' = "measure"
  /\ UNCHANGED <<sketch, duration, distance, platformDeployed, counterVars,
                 angle, observerVars, simpleVars>>
  /\ lastDelay' = SetupDelay
  /\ UNCHANGED iterTrace
  /\ UNCHANGED lastSweep

\* -------------------------------------------------- debounced sketch: loop()
\* distance = measureDistance();
Measure ==
  /\ sketch = "debounced"
  /\ pc = "measure"
  /\ \E t \in Durations :
       /\ duration' = t
       /\ distance' = measureDistance(t)
       /\ hist' = Remember(hist, [dist |-> measureDistance(t),
                                  dep |-> platformDeployed])
  /\ branch' = "none"
  /\ sweep' = "none"
  /\ pc' = "decide"
  /\ UNCHANGED <<sketch, platformDeployed, counterVars, outputVars, angle,
                 simpleVars>>
  /\ iterTrace' = Append(iterTrace, "sample")
  /\ UNCHANGED lastDelay
  /\ UNCHANGED lastSweep

\* faulty variant: the in-band branch forgets consecutiveNoDetections = 0
LoopInBand_KeepsNoDetections ==
  /\ sketch = "debounced"
  /\ pc = "decide"
  /\ InBand(distance)
  /\ \E c \in Increment(consecutiveDetections) :
       /\ consecutiveDetections' = c
       /\ IF ShouldDeploy(c, platformDeployed)
          THEN pc' = "deployPlatform" /\ sweep' = "deploy"
          ELSE pc' = "pause" /\ sweep' = sweep
  /\ branch' = "inband"
  /\ UNCHANGED <<sketch, duration, distance, platformDeployed,
                 consecutiveNoDetections, outputVars, angle, hist,
                 simpleVars>>
  /\ iterTrace' = Append(iterTrace, "inband")
  /\ UNCHANGED lastDelay
  /\ UNCHANGED lastSweep

\* if (distance >= MIN_DISTANCE && distance <= THRESHOLD_DISTANCE) { ... }
LoopInBand ==
  /\ sketch = "debounced"
  /\ pc = "decide"
  /\ InBand(distance)
  /\ \E c \in Increment(consecutiveDetections) :
       /\ consecutiveDetections' = c
       /\ IF ShouldDeploy(c, platformDeployed)
          THEN pc' = "deployPlatform" /\ sweep' = "deploy"
          ELSE pc' = "pause" /\ sweep' = sweep
  /\ consecutiveNoDetections' = 0
  /\ branch' = "inband"
  /\ UNCHANGED <<sketch, duration, distance, platformDeployed, outputVars,
                 angle, hist, simpleVars>>
  /\ iterTrace' = Append(iterTrace, "inband")
  /\ UNCHANGED lastDelay
  /\ UNCHANGED lastSweep

\* faulty variant: the far branch forgets consecutiveDetections = 0
LoopFar_KeepsDetections ==
  /\ sketch = "debounced"
  /\ pc = "decide"
  /\ ~InBand(distance)
  /\ Far(distance)
  /\ \E c \in Increment(consecutiveNoDetections) :
       /\ consecutiveNoDetections' = c
       /\ IF ShouldRetract(c, platformDeployed)
          THEN pc' = "retractPlatform" /\ sweep' = "retract"
          ELSE pc' = "pause" /\ sweep' = sweep
  /\ branch' = "far"
  /\ UNCHANGED <<sketch, duration, distance, platformDeployed,
                 consecutiveDetections, outputVars, angle, hist, simpleVars>>
  /\ iterTrace' = Append(iterTrace, "far")
  /\ UNCHANGED lastDelay
  /\ UNCHANGED lastSweep

\* else if (distance > MAX_DISTANCE) { ... }
LoopFar ==
  /\ sketch = "debounced"
  /\ pc = "decide"
  /\ ~InBand(distance)
  /\ Far(distance)
  /\ \E c \in Increment(consecutiveNoDetections) :
       /\ consecutiveNoDetections' = c
       /\ IF ShouldRetract(c, platformDeployed)
          THEN pc' = "retractPlatform" /\ sweep' = "retract"
          ELSE pc' = "pause" /\ sweep' = sweep
  /\ consecutiveDetections' = 0
  /\ branch' = "far"
  /\ UNCHANGED <<sketch, duration, distance, platformDeployed, outputVars,
                 angle, hist, simpleVars>>
  /\ iterTrace' = Append(iterTrace, "far")
  /\ UNCHANGED lastDelay
  /\ UNCHANGED lastSweep

\* faulty variant (the stricter policy): the intermediate branch leaves
\* consecutiveNoDetections alone
LoopBetween_KeepsNoDetections ==
  /\ sketch = "debounced"
  /\ pc = "decide"
  /\ ~InBand(distance)
  /\ ~Far(distance)
  /\ consecutiveDetections' = 0
  /\ branch' = "between"
  /\ pc' = "pause"
  /\ UNCHANGED <<sketch, duration, distance, platformDeployed,
                 consecutiveNoDetections, outputVars, angle, hist, sweep,
                 simpleVars>>
  /\ iterTrace' = Append(iterTrace, "between")
  /\ UNCHANGED lastDelay
  /\ UNCHANGED lastSweep

\* faulty variant: the intermediate branch forgets consecutiveDetections = 0
LoopBetween_KeepsDetections ==
  /\ sketch = "debounced"
  /\ pc = "decide"
  /\ ~InBand(distance)
  /\ ~Far(distance)
  /\ consecutiveNoDetections' = 0
  /\ branch' = "between"
  /\ pc' = "pause"
  /\ UNCHANGED <<sketch, duration, distance, platformDeployed,
                 consecutiveDetections, outputVars, angle, hist, sweep,
                 simpleVars>>
  /\ iterTrace' = Append(iterTrace, "between")
  /\ UNCHANGED lastDelay
  /\ UNCHANGED lastSweep

\* faulty variant: the final else also clears platformDeployed
LoopBetween_ClearsFlag ==
  /\ sketch = "debounced"
  /\ pc = "decide"
  /\ ~InBand(distance)
  /\ ~Far(distance)
  /\ consecutiveDetections' = 0
  /\ consecutiveNoDetections' = 0
  /\ platformDeployed' = FALSE
  /\ branch' = "between"
  /\ pc' = "pause"
  /\ UNCHANGED <<sketch, duration, distance, outputVars, angle, hist, sweep,
                 simpleVars>>
  /\ iterTrace' = Append(iterTrace, "between")
  /\ UNCHANGED lastDelay
  /\ UNCHANGED lastSweep

\* else { consecutiveDetections = 0; consecutiveNoDetections = 0; }
LoopBetween ==
  /\ sketch = "debounced"
  /\ pc = "decide"
  /\ ~InBand(distance)
  /\ ~Far(distance)
  /\ consecutiveDetections' = 0
  /\ consecutiveNoDetections' = 0
  /\ branch' = "between"
  /\ pc' = "pause"
  /\ UNCHANGED <<sketch, duration, distance, platformDeployed, outputVars,
                 angle, hist, sweep, simpleVars>>
  /\ iterTrace' = Append(iterTrace, "between")
  /\ UNCHANGED lastDelay
  /\ UNCHANGED lastSweep

\* faulty variant: after the sweep the branches are evaluated once more
LoopAfterDeploy_Reevaluate ==
  /\ sketch = "debounced"
  /\ pc = "afterDeploy"
  /\ consecutiveDetections' = 0
  /\ pc' = "decide"
  /\ UNCHANGED <<sketch, duration, distance, platformDeployed,
                 consecutiveNoDetections, outputVars, angle, observerVars,
                 simpleVars>>
  /\ UNCHANGED <<lastDelay, iterTrace>>
  /\ UNCHANGED lastSweep

\* faulty variant: consecutiveDetections is not reset after the deploy
LoopAfterDeploy_KeepsCount ==
  /\ sketch = "debounced"
  /\ pc = "afterDeploy"
  /\ pc' = "pause"
  /\ UNCHANGED <<sketch, duration, distance, platformDeployed, counterVars,
                 outputVars, angle, observerVars, simpleVars>>
  /\ UNCHANGED <<lastDelay, iterTrace>>
  /\ UNCHANGED lastSweep

\* consecutiveDetections = 0;   (after deployPlatform() has returned)
LoopAfterDeploy ==
  /\ sketch = "debounced"
  /\ pc = "afterDeploy"
  /\ consecutiveDetections' = 0
  /\ pc' = "pause"
  /\ UNCHANGED <<sketch, duration, distance, platformDeployed,
                 consecutiveNoDetections, outputVars, angle, observerVars,
                 simpleVars>>
  /\ UNCHANGED <<lastDelay, iterTrace>>
  /\ UNCHANGED lastSweep

\* consecutiveNoDetections = 0;   (after retractPlatform() has returned)
LoopAfterRetract ==
  /\ sketch = "debounced"
  /\ pc = "afterRetract"
  /\ consecutiveNoDetections' = 0
  /\ pc' = "pause"
  /\ UNCHANGED <<sketch, duration, distance, platformDeployed,
                 consecutiveDetections, outputVars, angle, observerVars,
                 simpleVars>>
  /\ UNCHANGED <<lastDelay, iterTrace>>
  /\ UNCHANGED lastSweep

\* delay(MEASUREMENT_DELAY);  loop() returns and is called again
Pause ==
  /\ sketch = "debounced"
  /\ pc = "pause"
  /\ pc' = "measure"
  /\ UNCHANGED <<sketch, duration, distance, platformDeployed, counterVars,
                 outputVars, angle, observerVars, simpleVars>>
  /\ lastDelay' = MEASUREMENT_DELAY
  /\ iterTrace' = <<>>
  /\ UNCHANGED lastSweep

\* faulty variant: deployPlatform forgets to switch the LEDs
DeployStart_NoLeds ==
  /\ sketch = "debounced"
  /\ pc = "deployPlatform"
  /\ angle' = SERVO_RETRACTED
  /\ pc' = "deploySweep"
  /\ UNCHANGED <<sketch, duration, distance, platformDeployed, counterVars,
                 outputVars, observerVars, simpleVars>>
  /\ lastDelay' = DeployAlertBeep
  /\ iterTrace' = Append(iterTrace, "deploy")
  /\ lastSweep' = "deploy"

\* ------------------------------------------ debounced sketch: deployPlatform
\* LEDs to "deployed", then  for (int angle = SERVO_RETRACTED; ...
DeployStart ==
  /\ sketch = "debounced"
  /\ pc = "deployPlatform"
  /\ ledGreen' = LOW
  /\ ledRed' = HIGH
  /\ angle' = SERVO_RETRACTED
  /\ pc' = "deploySweep"
  /\ UNCHANGED <<sketch, duration, distance, platformDeployed, counterVars,
                 servo1, servo2, observerVars, simpleVars>>
  /\ lastDelay' = DeployAlertBeep
  /\ iterTrace' = Append(iterTrace, "deploy")
  /\ lastSweep' = "deploy"

\* faulty variant: the sweep steps two degrees at a time
DeployStep_Stride2 ==
  /\ sketch = "debounced"
  /\ pc = "deploySweep"
  /\ angle <= SERVO_EXTENDED
  /\ servo1' = angle
  /\ servo2' = angle
  /\ angle' = angle + 2
  /\ UNCHANGED <<sketch, pc, duration, distance, platformDeployed,
                 counterVars, ledGreen, ledRed, observerVars, simpleVars>>
  /\ lastDelay' = StepDelay
  /\ UNCHANGED iterTrace
  /\ UNCHANGED lastSweep

\* angle <= SERVO_EXTENDED: servo1.write(angle); servo2.write(angle); angle++
DeployStep ==
  /\ sketch = "debounced"
  /\ pc = "deploySweep"
  /\ angle <= SERVO_EXTENDED
  /\ servo1' = angle
  /\ servo2' = angle
  /\ angle' = angle + 1
  /\ UNCHANGED <<sketch, pc, duration, distance, platformDeployed,
                 counterVars, ledGreen, ledRed, observerVars, simpleVars>>
  /\ lastDelay' = StepDelay
  /\ UNCHANGED iterTrace
  /\ UNCHANGED lastSweep

\* faulty variant: the sweep may stop one degree short (angle < SERVO_EXTENDED)
DeployEnd_StopsShort ==
  /\ sketch = "debounced"
  /\ pc = "deploySweep"
  /\ ~(angle < SERVO_EXTENDED)
  /\ platformDeployed' = TRUE
  /\ pc' = "afterDeploy"
  /\ UNCHANGED <<sketch, duration, distance, counterVars, outputVars, angle,
                 observerVars, simpleVars>>
  /\ lastDelay' = SuccessBeep
  /\ UNCHANGED iterTrace
  /\ UNCHANGED lastSweep

\* loop exit; platformDeployed = true; return
DeployEnd ==
  /\ sketch = "debounced"
  /\ pc = "deploySweep"
  /\ ~(angle <= SERVO_EXTENDED)
  /\ platformDeployed' = TRUE
  /\ pc' = "afterDeploy"
  /\ UNCHANGED <<sketch, duration, distance, counterVars, outputVars, angle,
                 observerVars, simpleVars>>
  /\ lastDelay' = SuccessBeep
  /\ UNCHANGED iterTrace
  /\ UNCHANGED lastSweep

\* faulty variant: retractPlatform switches the LEDs before the sweep, as
\* deployPlatform does
RetractStart_LedsFirst ==
  /\ sketch = "debounced"
  /\ pc = "retractPlatform"
  /\ ledGreen' = HIGH
  /\ ledRed' = LOW
  /\ angle' = SERVO_EXTENDED
  /\ pc' = "retractSweep"
  /\ UNCHANGED <<sketch, duration, distance, platformDeployed, counterVars,
                 servo1, servo2, observerVars, simpleVars>>
  /\ lastDelay' = RetractAlertBeep
  /\ iterTrace' = Append(iterTrace, "retract")
  /\ lastSweep' = "retract"

\* ----------------------------------------- debounced sketch: retractPlatform
\* for (int angle = SERVO_EXTENDED; ...
RetractStart ==
  /\ sketch = "debounced"
  /\ pc = "retractPlatform"
  /\ angle' = SERVO_EXTENDED
  /\ pc' = "retractSweep"
  /\ UNCHANGED <<sketch, duration, distance, platformDeployed, counterVars,
                 outputVars, observerVars, simpleVars>>
  /\ lastDelay' = RetractAlertBeep
  /\ iterTrace' = Append(iterTrace, "retract")
  /\ lastSweep' = "retract"

\* faulty variant: the loop variable is never decremented
RetractStep_Stuck ==
  /\ sketch = "debounced"
  /\ pc = "retractSweep"
  /\ angle >= SERVO_RETRACTED
  /\ servo1' = angle
  /\ servo2' = angle
  /\ angle' = angle
  /\ UNCHANGED <<sketch, pc, duration, distance, platformDeployed,
                 counterVars, ledGreen, ledRed, observerVars, simpleVars>>
  /\ lastDelay' = StepDelay
  /\ UNCHANGED iterTrace
  /\ UNCHANGED lastSweep

\* angle >= SERVO_RETRACTED: servo1.write(angle); servo2.write(angle); angle--
RetractStep ==
  /\ sketch = "debounced"
  /\ pc = "retractSweep"
  /\ angle >= SERVO_RETRACTED
  /\ servo1' = angle
  /\ servo2' = angle
  /\ angle' = angle - 1
  /\ UNCHANGED <<sketch, pc, duration, distance, platformDeployed,
                 counterVars, ledGreen, ledRed, observerVars, simpleVars>>
  /\ lastDelay' = StepDelay
  /\ UNCHANGED iterTrace
  /\ UNCHANGED lastSweep

\* faulty variant: retractPlatform forgets platformDeployed = false
RetractEnd_KeepsFlag ==
  /\ sketch = "debounced"
  /\ pc = "retractSweep"
  /\ ~(angle >= SERVO_RETRACTED)
  /\ ledGreen' = HIGH
  /\ ledRed' = LOW
  /\ pc' = "afterRetract"
  /\ UNCHANGED <<sketch, duration, distance, platformDeployed, counterVars,
                 servo1, servo2, angle, observerVars, simpleVars>>
  /\ lastDelay' = SuccessBeep
  /\ UNCHANGED iterTrace
  /\ UNCHANGED lastSweep

\* loop exit; platformDeployed = false; LEDs to "ready"; return
RetractEnd ==
  /\ sketch = "debounced"
  /\ pc = "retractSweep"
  /\ ~(angle >= SERVO_RETRACTED)
  /\ platformDeployed' = FALSE
  /\ ledGreen' = HIGH
  /\ ledRed' = LOW
  /\ pc' = "afterRetract"
  /\ UNCHANGED <<sketch, duration, distance, counterVars, servo1, servo2,
                 angle, observerVars, simpleVars>>
  /\ lastDelay' = SuccessBeep
  /\ UNCHANGED iterTrace
  /\ UNCHANGED lastSweep

\* ------------------------------------------------------------ simple sketch
debouncedVars == <<duration, distance, platformDeployed, counterVars,
                   outputVars, angle, observerVars, lastDelay, iterTrace,
                   lastSweep>>

\* distance = duration * 0.034 / 2;  assigned to a long: truncated
simpleDistanceOf(t) == (t * SimpleSpeedNum) \div SimpleSpeedDen

\* faulty variant: the distance > 0 test is missing
SimpleDetected_NoZeroCheck(d) == d < SimpleThreshold

\* distance > 0 && distance < 25
SimpleDetected(d) == d > 0 /\ d < SimpleThreshold

\* setup(): platformServo.write(0);
SimpleSetup ==
  /\ sketch = "simple"
  /\ pc = "setup"
  /\ platformServo' = SimpleRetracted
  /\ pc' = "simpleMeasure"
  /\ UNCHANGED <<sketch, debouncedVars, simpleDuration, simpleDistance,
                 simplePrev>>

\* duration = pulseIn(echoPin, HIGH);  distance = duration * 0.034 / 2;
SimpleMeasure ==
  /\ sketch = "simple"
  /\ pc = "simpleMeasure"
  /\ \E t \in SimpleDurations :
       /\ simpleDuration' = t
       /\ simpleDistance' = simpleDistanceOf(t)
  /\ simplePrev' = simpleDistance
  /\ pc' = "simpleDecide"
  /\ UNCHANGED <<sketch, debouncedVars, platformServo>>

\* if (distance > 0 && distance < 25) write(90) else write(0)
SimpleDecide ==
  /\ sketch = "simple"
  /\ pc = "simpleDecide"
  /\ platformServo' = IF SimpleDetected(simpleDistance)
                      THEN SimpleExtended ELSE SimpleRetracted
  /\ pc' = "simpleDelay"
  /\ UNCHANGED <<sketch, debouncedVars, simpleDuration, simpleDistance,
                 simplePrev>>

\* delay(100);  loop() returns and is called again
SimpleDelay ==
  /\ sketch = "simple"
  /\ pc = "simpleDelay"
  /\ pc' = "simpleMeasure"
  /\ UNCHANGED <<sketch, debouncedVars, simpleVars>>

\* --------------------------------------------------------------------- Next
Next ==
  \/ Setup
  \/ Measure
  \/ LoopInBand
  \/ LoopFar
  \/ LoopBetween
  \/ LoopAfterDeploy
  \/ LoopAfterRetract
  \/ Pause
  \/ DeployStart
  \/ DeployStep
  \/ DeployEnd
  \/ RetractStart
  \/ RetractStep
  \/ RetractEnd
  \/ SimpleSetup
  \/ SimpleMeasure
  \/ SimpleDecide
  \/ SimpleDelay

Spec == Init /\ [][Next]_vars

\* ===================================================================== claims
\* Bands as the claims state them, in the units of `distance'.
AtLeastMin(d) == d >= MIN_DISTANCE * DistScale
AtMostThreshold(d) == d <= THRESHOLD_DISTANCE * DistScale
InClosedBand(d) == AtLeastMin(d) /\ AtMostThreshold(d)
AboveMax(d) == d > MAX_DISTANCE * DistScale
IsTimeout(d) == d = TimeoutDistance * DistScale

\* indices of the n most recent samples
Recent(n) == (Len(hist) - n + 1) .. Len(hist)
Latest == hist[Len(hist)]

\* the last DEBOUNCE_COUNT samples are all in the closed band and were all
\* taken while Monitoring (hence with no transition between them)
RunInBandMonitoring ==
  /\ Len(hist) >= DEBOUNCE_COUNT
  /\ \A i \in Recent(DEBOUNCE_COUNT) :
       InClosedBand(hist[i].dist) /\ ~hist[i].dep

\* the last DEBOUNCE_COUNT samples are all above MAX_DISTANCE and were all
\* taken while Deployed
RunFarDeployed ==
  /\ Len(hist) >= DEBOUNCE_COUNT
  /\ \A i \in Recent(DEBOUNCE_COUNT) :
       AboveMax(hist[i].dist) /\ hist[i].dep

\* the last DEBOUNCE_COUNT samples are all timeouts
RunTimeouts ==
  /\ Len(hist) >= DEBOUNCE_COUNT
  /\ \A i \in Recent(DEBOUNCE_COUNT) : IsTimeout(hist[i].dist)

EndOfIteration == sketch = "debounced" /\ pc = "pause"

\* C1: platformDeployed goes false -> true only in an iteration whose sample
\* and the DEBOUNCE_COUNT-1 samples before it are all in [13, 20] cm and were
\* all taken while Monitoring, so that in-band samples counted before an
\* out-of-band sample or before an earlier transition never contribute.
C1_DeployOnlyAfterInBandRun ==
  [][(~platformDeployed /\ platformDeployed') => RunInBandMonitoring']_vars

C1_Witness ==
  /\ EndOfIteration
  /\ sweep = "deploy"
  /\ platformDeployed
  /\ Len(hist) = HistLen
  /\ ~InClosedBand(hist[1].dist)
  /\ RunInBandMonitoring

\* C2: platformDeployed goes true -> false only in an iteration whose sample
\* and the DEBOUNCE_COUNT-1 samples before it are all above 25 cm and were all
\* taken while Deployed; far samples seen while Monitoring never contribute.
C2_RetractOnlyAfterFarRun ==
  [][(platformDeployed /\ ~platformDeployed') => RunFarDeployed']_vars

C2_Witness ==
  /\ EndOfIteration
  /\ sweep = "retract"
  /\ ~platformDeployed
  /\ Len(hist) = HistLen
  /\ ~hist[1].dep
  /\ RunFarDeployed

\* C3: a no-echo measurement is always "no train".  Debounced sketch: pulse
\* duration 0 yields the distance 999, which takes the distance > MAX_DISTANCE
\* branch, leaves consecutiveDetections at 0 and starts no deploy, whatever
\* platformDeployed and the counters were.  Simple sketch: pulse duration 0
\* yields distance 0 and the servo is commanded to 0.
C3_TimeoutIsNoTrain ==
  /\ (sketch = "debounced" /\ pc \notin {"setup", "measure"}
        /\ duration = 0) =>
        /\ IsTimeout(distance)
        /\ AboveMax(distance)
        /\ pc # "decide" =>
              /\ branch = "far"
              /\ consecutiveDetections = 0
              /\ sweep # "deploy"
              /\ pc \notin {"deployPlatform", "deploySweep", "afterDeploy"}
  /\ (sketch = "simple" /\ pc = "simpleDelay" /\ simpleDuration = 0) =>
        /\ simpleDistance = 0
        /\ platformServo = SimpleRetracted

C3_Witness ==
  /\ EndOfIteration
  /\ duration = 0
  /\ platformDeployed
  /\ branch = "far"
  /\ Len(hist) >= 2
  /\ InClosedBand(hist[Len(hist) - 1].dist)

\* C4: at the end of every iteration that completes a run of DEBOUNCE_COUNT
\* consecutive timeouts (and of every later iteration while the timeouts go
\* on) the platform is retracted: platformDeployed is false and both servos
\* were last commanded to SERVO_RETRACTED.
C4_TimeoutsRetract ==
  (sketch = "debounced" /\ pc \in {"pause", "measure"} /\ RunTimeouts) =>
     /\ ~platformDeployed
     /\ servo1 = SERVO_RETRACTED
     /\ servo2 = SERVO_RETRACTED

C4_Witness ==
  /\ EndOfIteration
  /\ RunTimeouts
  /\ sweep = "retract"
  /\ ~platformDeployed
  /\ servo1 = SERVO_RETRACTED

\* C5: an iteration whose sample is outside [13, 20] cm (below 13, between 20
\* and 25, or above 25) ends with consecutiveDetections = 0.
C5_NoPartialCredit ==
  (EndOfIteration /\ ~InClosedBand(Latest.dist)) => consecutiveDetections = 0

C5_Witness ==
  /\ EndOfIteration
  /\ Len(hist) >= 3
  /\ InClosedBand(hist[Len(hist) - 2].dist)
  /\ InClosedBand(hist[Len(hist) - 1].dist)
  /\ ~hist[Len(hist) - 1].dep
  /\ ~InClosedBand(Latest.dist)
  /\ ~platformDeployed
  /\ consecutiveDetections = 0

\* C6: an iteration ends having deployed exactly when its sample is the
\* DEBOUNCE_COUNT-th consecutive in-band sample taken while Monitoring: not
\* earlier (fewer in-band samples) and not later.
C6_DeployExactlyAtDebounce ==
  EndOfIteration =>
    ((sweep = "deploy" /\ platformDeployed) <=> RunInBandMonitoring)

C6_Witness ==
  /\ EndOfIteration
  /\ Len(hist) = HistLen
  /\ AboveMax(hist[1].dist)
  /\ ~hist[1].dep
  /\ RunInBandMonitoring
  /\ sweep = "deploy"
  /\ platformDeployed
  /\ servo1 = SERVO_EXTENDED

\* C7: an iteration ends having retracted exactly when its sample is the
\* DEBOUNCE_COUNT-th consecutive sample above 25 cm taken while Deployed, and
\* an in-band sample taken while Deployed leaves consecutiveNoDetections = 0.
C7_RetractExactlyAtDebounce ==
  EndOfIteration =>
    /\ (sweep = "retract" /\ ~platformDeployed) <=> RunFarDeployed
    /\ (InClosedBand(Latest.dist) /\ Latest.dep) =>
          consecutiveNoDetections = 0

C7_Witness ==
  /\ EndOfIteration
  /\ Len(hist) = HistLen
  /\ InClosedBand(hist[1].dist)
  /\ hist[1].dep
  /\ RunFarDeployed
  /\ sweep = "retract"
  /\ ~platformDeployed
  /\ servo1 = SERVO_RETRACTED

SimpleEndOfIteration == sketch = "simple" /\ pc = "simpleDelay"

\* C8 as stated: in the simple sketch every distance below 25 cm commands the
\* angle 90 and every distance at or above 25 cm commands the angle 0.
C8_Original ==
  SimpleEndOfIteration =>
    /\ simpleDistance < MAX_DISTANCE => platformServo = SERVO_EXTENDED
    /\ simpleDistance >= MAX_DISTANCE => platformServo = SERVO_RETRACTED

\* C8 amended: in the simple sketch a distance d with 0 < d < 25 commands the
\* angle 90 and any other distance (0, or at least 25) commands the angle 0;
\* the commanded angle depends on this iteration's sample only.
C8_SingleThreshold ==
  SimpleEndOfIteration =>
    platformServo = IF 0 < simpleDistance /\ simpleDistance < MAX_DISTANCE
                    THEN SERVO_EXTENDED ELSE SERVO_RETRACTED

C8_Witness ==
  /\ SimpleEndOfIteration
  /\ simplePrev = 10
  /\ simpleDistance = 30
  /\ platformServo = SERVO_RETRACTED

\* C9: an in-band sample taken while Deployed ends the iteration without
\* calling deployPlatform, without changing platformDeployed and without a
\* servo write; a far sample taken while Monitoring ends the iteration
\* without calling retractPlatform.
C9_NoSweepWhenAlreadyThere ==
  [][(sketch = "debounced" /\ pc = "decide") =>
       /\ (platformDeployed /\ InClosedBand(distance)) =>
             /\ pc' = "pause"
             /\ sweep' = "none"
             /\ UNCHANGED <<platformDeployed, servo1, servo2>>
       /\ (~platformDeployed /\ AboveMax(distance)) =>
             /\ pc' = "pause"
             /\ sweep' = "none"
             /\ UNCHANGED <<platformDeployed, servo1, servo2>>]_vars

C9_Witness ==
  /\ EndOfIteration
  /\ platformDeployed
  /\ servo1 = SERVO_EXTENDED
  /\ sweep = "none"
  /\ Len(hist) = HistLen
  /\ \A i \in 1 .. HistLen : InClosedBand(hist[i].dist) /\ hist[i].dep

\* C10 as stated: both debounce counters are always within
\* 0 .. DEBOUNCE_COUNT.
C10_CountersBounded ==
  /\ 0 <= consecutiveDetections
  /\ consecutiveDetections <= DEBOUNCE_COUNT
  /\ 0 <= consecutiveNoDetections
  /\ consecutiveNoDetections <= DEBOUNCE_COUNT

Endpoints == {SERVO_RETRACTED, SERVO_EXTENDED}
InSweep == pc \in {"deployPlatform", "deploySweep", "afterDeploy",
                   "retractPlatform", "retractSweep", "afterRetract"}

\* C11 as stated: every servo write of either sketch has the value
\* SERVO_RETRACTED or SERVO_EXTENDED.
C11_Original ==
  /\ servo1 # NoAngle => servo1 \in Endpoints
  /\ servo2 # NoAngle => servo2 \in Endpoints
  /\ platformServo # NoAngle => platformServo \in Endpoints

\* C11 amended: every servo write has a value within SERVO_RETRACTED ..
\* SERVO_EXTENDED; the writes of setup and all writes of the simple sketch are
\* one of the two endpoints; in the debounced sketch only the writes of a
\* sweep take intermediate values, and outside a sweep the last commanded
\* angle of both servos is one of the two endpoints.
C11_AnglesWithinEndpoints ==
  /\ servo1 # NoAngle => servo1 \in SERVO_RETRACTED .. SERVO_EXTENDED
  /\ servo2 # NoAngle => servo2 \in SERVO_RETRACTED .. SERVO_EXTENDED
  /\ platformServo # NoAngle => platformServo \in Endpoints
  /\ (sketch = "debounced" /\ pc # "setup" /\ ~InSweep) =>
        servo1 \in Endpoints /\ servo2 \in Endpoints

C11_Witness ==
  /\ sketch = "debounced"
  /\ pc = "deploySweep"
  /\ servo1 = 45
  /\ servo2 = 45

\* C12: in the debounced sketch every write to a servo differs from the
\* previous write to it by at most one degree; a sweep starts at the angle
\* the servos were last commanded to; a deploy sweep writes 0, 1, ..., 90 in
\* ascending order and a retract sweep 90, 89, ..., 0 in descending order,
\* each write being followed by delay(15); all angles stay within 0 .. 90.
C12_SmoothSweep ==
  /\ [][sketch = "debounced" =>
         /\ servo1 # NoAngle => servo1' - servo1 \in {-1, 0, 1}
         /\ servo2 # NoAngle => servo2' - servo2 \in {-1, 0, 1}
         /\ (pc = "deployPlatform" /\ pc' = "deploySweep") =>
               angle' = SERVO_RETRACTED /\ servo1 = angle' /\ servo2 = angle'
         /\ (pc = "retractPlatform" /\ pc' = "retractSweep") =>
               angle' = SERVO_EXTENDED /\ servo1 = angle' /\ servo2 = angle'
         /\ (pc = "deploySweep" /\ pc' = pc) =>
               /\ servo1' = angle /\ servo2' = angle
               /\ angle = SERVO_RETRACTED \/ servo1' = servo1 + 1
               /\ angle' = angle + 1
               /\ lastDelay' = 15
         /\ (pc = "retractSweep" /\ pc' = pc) =>
               /\ servo1' = angle /\ servo2' = angle
               /\ angle = SERVO_EXTENDED \/ servo1' = servo1 - 1
               /\ angle' = angle - 1
               /\ lastDelay' = 15
         /\ (pc = "deploySweep" /\ pc' # pc) =>
               servo1 = SERVO_EXTENDED /\ servo2 = SERVO_EXTENDED
         /\ (pc = "retractSweep" /\ pc' # pc) =>
               servo1 = SERVO_RETRACTED /\ servo2 = SERVO_RETRACTED]_vars
  /\ [](sketch = "debounced" /\ pc # "setup" =>
          /\ servo1 \in SERVO_RETRACTED .. SERVO_EXTENDED
          /\ servo2 \in SERVO_RETRACTED .. SERVO_EXTENDED)

C12_Witness ==
  /\ sketch = "debounced"
  /\ pc = "retractSweep"
  /\ servo1 = 45
  /\ servo2 = 45
  /\ angle = 44
  /\ lastDelay = 15

BranchOf(d) == IF InClosedBand(d) THEN "inband"
               ELSE IF AboveMax(d) THEN "far" ELSE "between"

CompleteIterations ==
  {<<"sample", b>> : b \in {"inband", "far", "between"}}
    \cup {<<"sample", "inband", "deploy">>, <<"sample", "far", "retract">>}

\* C13: every iteration of the debounced loop takes exactly one sample,
\* executes exactly one of the three branches (the one its sample selects),
\* starts at most one sweep (a deploy only from the in-band branch, a retract
\* only from the far branch, never both), and ends with
\* delay(MEASUREMENT_DELAY).
C13_OneSampleOneBranchOneSweep ==
  /\ [](sketch = "debounced" =>
          /\ pc \in {"setup", "measure"} => iterTrace = <<>>
          /\ pc = "decide" => iterTrace = <<"sample">>
          /\ pc \in {"deployPlatform", "retractPlatform"} =>
                iterTrace \in {<<"sample", "inband">>, <<"sample", "far">>}
          /\ pc \in {"deploySweep", "afterDeploy"} =>
                iterTrace = <<"sample", "inband", "deploy">>
          /\ pc \in {"retractSweep", "afterRetract"} =>
                iterTrace = <<"sample", "far", "retract">>
          /\ pc = "pause" => iterTrace \in CompleteIterations)
  /\ [][(sketch = "debounced" /\ pc = "decide") =>
          iterTrace' = Append(iterTrace, BranchOf(distance))]_vars
  /\ [][(sketch = "debounced" /\ pc = "pause") =>
          pc' = "measure" /\ lastDelay' = 100]_vars

C13_Witness ==
  /\ EndOfIteration
  /\ iterTrace = <<"sample", "far", "retract">>
  /\ lastDelay = 100

\* the program never stops: the Arduino core calls loop() forever and every
\* statement of it terminates
FairSpec == Spec /\ WF_vars(Next)

Sweeping == pc \in {"deployPlatform", "deploySweep",
                    "retractPlatform", "retractSweep"}

\* C14: a sweep that has started always ends, with both servos at its target
\* angle; from the call of deployPlatform / retractPlatform to the last write
\* no sample is taken and no debounce counter changes; platformDeployed
\* changes only after the last write of the sweep.
C14_SweepRunsToCompletion ==
  /\ [][(sketch = "debounced" /\ Sweeping) =>
          /\ UNCHANGED <<duration, distance, hist, consecutiveDetections,
                         consecutiveNoDetections>>
          /\ pc' \in {pc, "deploySweep", "retractSweep",
                       "afterDeploy", "afterRetract"}]_vars
  /\ [][(platformDeployed' # platformDeployed) =>
          /\ UNCHANGED <<servo1, servo2>>
          /\ \/ /\ pc = "deploySweep" /\ platformDeployed'
                /\ servo1 = SERVO_EXTENDED /\ servo2 = SERVO_EXTENDED
             \/ /\ pc = "retractSweep" /\ ~platformDeployed'
                /\ servo1 = SERVO_RETRACTED /\ servo2 = SERVO_RETRACTED]_vars
  /\ (pc = "deployPlatform") ~>
        (pc = "afterDeploy" /\ platformDeployed
           /\ servo1 = SERVO_EXTENDED /\ servo2 = SERVO_EXTENDED)
  /\ (pc = "retractPlatform") ~>
        (pc = "afterRetract" /\ ~platformDeployed
           /\ servo1 = SERVO_RETRACTED /\ servo2 = SERVO_RETRACTED)

C14_Witness ==
  /\ sketch = "debounced"
  /\ pc = "afterDeploy"
  /\ platformDeployed
  /\ servo1 = SERVO_EXTENDED
  /\ servo2 = SERVO_EXTENDED
  /\ consecutiveDetections = DEBOUNCE_COUNT

\* C15: under fair execution of the debounced loop, if from some iteration on
\* every sample is above MAX_DISTANCE the platform is eventually retracted
\* and stays retracted, and if from some iteration on every sample is in
\* [MIN_DISTANCE, THRESHOLD_DISTANCE] it is eventually deployed and stays
\* deployed.
C15_EventuallyFollowsTrain ==
  /\ <>[](sketch = "debounced" /\ AboveMax(distance)) =>
        <>[](~platformDeployed)
  /\ <>[](sketch = "debounced" /\ InClosedBand(distance)) =>
        <>[](platformDeployed)

C15_Witness ==
  /\ EndOfIteration
  /\ Len(hist) = HistLen
  /\ \A i \in 1 .. HistLen : AboveMax(hist[i].dist)
  /\ hist[1].dep
  /\ ~Latest.dep
  /\ ~platformDeployed
  /\ sweep = "none"

\* the detection range of the README: 13 - 25 cm
InReadmeRange(d) == AtLeastMin(d) /\ d <= MAX_DISTANCE * DistScale

\* C16 as stated: DEBOUNCE_COUNT consecutive samples anywhere in [13, 25] cm
\* taken while Monitoring lead to a deploy.
C16_DetectsWithinReadmeRange ==
  (/\ EndOfIteration
   /\ Len(hist) >= DEBOUNCE_COUNT
   /\ \A i \in Recent(DEBOUNCE_COUNT) :
        InReadmeRange(hist[i].dist) /\ ~hist[i].dep)
    => (sweep = "deploy" /\ platformDeployed)

Intermediate(d) == ~AtMostThreshold(d) /\ ~AboveMax(d)

\* C17: while Deployed, a sample of at most MAX_DISTANCE never starts a
\* retraction, and a sample in the intermediate band (20, 25] cm leaves
\* consecutiveNoDetections = 0, so far samples interleaved with
\* intermediate-band samples never add up to a retraction.
C17_StaysDeployedWhileTrainNear ==
  /\ [][(sketch = "debounced" /\ pc = "decide" /\ platformDeployed
           /\ ~AboveMax(distance)) =>
          /\ pc' = "pause"
          /\ platformDeployed'
          /\ UNCHANGED <<servo1, servo2>>]_vars
  /\ []((EndOfIteration /\ Latest.dep /\ Intermediate(Latest.dist)) =>
          (platformDeployed /\ consecutiveNoDetections = 0))

C17_Witness ==
  /\ EndOfIteration
  /\ Len(hist) = HistLen
  /\ \A i \in 1 .. HistLen : hist[i].dep
  /\ AboveMax(hist[1].dist)
  /\ AboveMax(hist[2].dist)
  /\ Intermediate(hist[3].dist)
  /\ AboveMax(hist[4].dist)
  /\ platformDeployed
  /\ consecutiveNoDetections = 1

\* ------------------------------------------- measureDistance on every input
\* One call of measureDistance for each pulse width pulseIn can return with
\* the timeout of PulseTimeout microseconds.
InitMeasure ==
  /\ sketch = "debounced"
  /\ pc = "pulseIn"
  /\ duration \in 0 .. PulseTimeout
  /\ distance = 0
  /\ platformDeployed = FALSE
  /\ consecutiveDetections = 0
  /\ consecutiveNoDetections = 0
  /\ servo1 = SERVO_RETRACTED
  /\ servo2 = SERVO_RETRACTED
  /\ ledGreen = HIGH
  /\ ledRed = LOW
  /\ angle = 0
  /\ hist = <<>>
  /\ branch = "none"
  /\ sweep = "none"
  /\ lastDelay = SetupDelay
  /\ iterTrace = <<>>
  /\ lastSweep = "none"
  /\ simpleDuration = 0
  /\ simpleDistance = 0
  /\ platformServo = NoAngle
  /\ simplePrev = 0

\* float dist = ...; if (duration == 0) return 999; return dist;
ReturnDistance ==
  /\ pc = "pulseIn"
  /\ distance' = measureDistance(duration)
  /\ pc' = "returned"
  /\ UNCHANGED <<sketch, duration, platformDeployed, counterVars,
                 outputVars, angle, observerVars, lastDelay, iterTrace,
                 simpleVars>>
  /\ UNCHANGED lastSweep

NextMeasure == ReturnDistance

SpecMeasure == InitMeasure /\ [][NextMeasure]_vars

C19_StateAfterSetup ==
  [][pc = "setup" =>
       /\ sketch = "debounced" =>
             /\ pc' = "measure"
             /\ ~platformDeployed'
             /\ consecutiveDetections' = 0
             /\ consecutiveNoDetections' = 0
             /\ servo1' = SERVO_RETRACTED
             /\ servo2' = SERVO_RETRACTED
             /\ ledGreen' = 1
             /\ ledRed' = 0
             /\ hist' = <<>>
       /\ sketch = "simple" =>
             /\ pc' = "simpleMeasure"
             /\ platformServo' = 0]_vars

C19_Witness ==
  /\ sketch = "debounced"
  /\ pc = "measure"
  /\ hist = <<>>
  /\ ~platformDeployed
  /\ servo1 = SERVO_RETRACTED
  /\ servo2 = SERVO_RETRACTED
  /\ ledGreen = 1
  /\ ledRed = 0

\* C20: an iteration during which platformDeployed changed (its value now
\* differs from the one it had when the sample was taken) ends with both
\* debounce counters equal to 0.
C20_CountersResetOnTransition ==
  (EndOfIteration /\ Latest.dep # platformDeployed) =>
     (consecutiveDetections = 0 /\ consecutiveNoDetections = 0)

C20_Witness ==
  /\ EndOfIteration
  /\ Latest.dep
  /\ ~platformDeployed
  /\ consecutiveDetections = 0
  /\ consecutiveNoDetections = 0

\* the last DEBOUNCE_COUNT samples were all taken in the current state, i.e.
\* platformDeployed has not changed during the last DEBOUNCE_COUNT iterations
NoRecentTransition ==
  /\ Len(hist) >= DEBOUNCE_COUNT
  /\ \A i \in Recent(DEBOUNCE_COUNT) : hist[i].dep = platformDeployed

\* C21: deploy and retract sweeps alternate: a deploy sweep starts only if
\* no sweep or a retract sweep came last, a retract sweep only if a deploy
\* sweep came last (so the first sweep is a deploy), and a sweep starts only
\* in an iteration that is at least DEBOUNCE_COUNT iterations after setup
\* and after the previous sweep.
C21_SweepsAlternate ==
  /\ [][(sketch = "debounced" /\ pc = "deployPlatform" /\ pc' # pc) =>
          (lastSweep \in {"none", "retract"} /\ lastSweep' = "deploy")]_vars
  /\ [][(sketch = "debounced" /\ pc = "retractPlatform" /\ pc' # pc) =>
          (lastSweep = "deploy" /\ lastSweep' = "retract")]_vars
  /\ [][lastSweep' # lastSweep =>
          pc \in {"deployPlatform", "retractPlatform"}]_vars
  /\ []((sketch = "debounced"
           /\ pc \in {"deployPlatform", "retractPlatform"}) =>
          NoRecentTransition)

C21_Witness ==
  /\ sketch = "debounced"
  /\ pc = "deployPlatform"
  /\ lastSweep = "retract"
  /\ Len(hist) = HistLen
  /\ hist[1].dep
  /\ NoRecentTransition

IterationBoundary == sketch = "debounced" /\ pc \in {"pause", "measure"}

\* C22: at every iteration boundary of the debounced loop at most one of
\* consecutiveDetections and consecutiveNoDetections is non-zero.
C22_OneCounterAtATime ==
  IterationBoundary =>
    (consecutiveDetections = 0 \/ consecutiveNoDetections = 0)

C22_Witness ==
  /\ EndOfIteration
  /\ Len(hist) >= DEBOUNCE_COUNT
  /\ AboveMax(hist[Len(hist) - 2].dist)
  /\ consecutiveDetections = 2
  /\ consecutiveNoDetections = 0

\* C23: at every iteration boundary the counter that can trigger the next
\* transition is below DEBOUNCE_COUNT: consecutiveDetections while
\* Monitoring, consecutiveNoDetections while Deployed.
C23_TriggerCounterBelowDebounce ==
  IterationBoundary =>
    /\ ~platformDeployed => consecutiveDetections < DEBOUNCE_COUNT
    /\ platformDeployed => consecutiveNoDetections < DEBOUNCE_COUNT

C23_Witness ==
  /\ EndOfIteration
  /\ platformDeployed
  /\ consecutiveNoDetections = DEBOUNCE_COUNT - 1
  /\ AboveMax(Latest.dist)

ShowsDeployed == ledRed = 1 /\ ledGreen = 0
ShowsReady == ledGreen = 1 /\ ledRed = 0

\* C24: at every iteration boundary of the debounced loop the outputs agree
\* with platformDeployed: it is true exactly when both servos were last
\* written SERVO_EXTENDED and the red LED is on and the green LED off, false
\* exactly when they were last written SERVO_RETRACTED and the green LED is
\* on and the red LED off; after every step of a sweep both servos have
\* been written the same angle.
C24_OutputsAgreeWithState ==
  /\ IterationBoundary =>
        /\ platformDeployed <=>
              (servo1 = SERVO_EXTENDED /\ servo2 = SERVO_EXTENDED
                 /\ ShowsDeployed)
        /\ ~platformDeployed <=>
              (servo1 = SERVO_RETRACTED /\ servo2 = SERVO_RETRACTED
                 /\ ShowsReady)
  /\ sketch = "debounced" => servo1 = servo2

C24_Witness ==
  /\ EndOfIteration
  /\ sweep = "deploy"
  /\ platformDeployed
  /\ servo1 = SERVO_EXTENDED
  /\ servo2 = SERVO_EXTENDED
  /\ ShowsDeployed

\* C25: in every state of the debounced sketch, also in the middle of a
\* sweep, if the last commanded angle of a servo is above SERVO_RETRACTED the
\* red LED is on and the green LED is off.
C25_NeverReadyWhileExtended ==
  (sketch = "debounced"
     /\ (servo1 > SERVO_RETRACTED \/ servo2 > SERVO_RETRACTED)) =>
    ShowsDeployed

C25_Witness ==
  /\ sketch = "debounced"
  /\ pc = "retractSweep"
  /\ servo1 = SERVO_RETRACTED + 1
  /\ servo2 = SERVO_RETRACTED + 1
  /\ platformDeployed
  /\ ShowsDeployed

\* C26: a sample below MIN_DISTANCE takes the final else branch like an
\* intermediate-band sample: both counters become 0 and no sweep starts, so
\* platformDeployed and the servos keep their values.
C26_TooCloseIsIgnored ==
  [][(sketch = "debounced" /\ pc = "decide" /\ ~AtLeastMin(distance)) =>
       /\ pc' = "pause"
       /\ iterTrace' = <<"sample", "between">>
       /\ consecutiveDetections' = 0
       /\ consecutiveNoDetections' = 0
       /\ UNCHANGED <<platformDeployed, servo1, servo2>>]_vars

C26_Witness ==
  /\ EndOfIteration
  /\ Len(hist) = HistLen
  /\ \A i \in 1 .. HistLen : ~AtLeastMin(hist[i].dist) /\ hist[i].dep
  /\ platformDeployed
  /\ consecutiveDetections = 0
  /\ consecutiveNoDetections = 0

\* C27 as stated: no run increments a debounce counter that already holds
\* the largest representable value, and no counter is ever negative.
C27_NoCounterOverflow ==
  /\ (sketch = "debounced" /\ pc = "decide") =>
        /\ InClosedBand(distance) => consecutiveDetections < MaxInt
        /\ AboveMax(distance) => consecutiveNoDetections < MaxInt
  /\ consecutiveDetections >= 0
  /\ consecutiveNoDetections >= 0

\* C28: a step of an iteration of the debounced loop that does not enter a
\* sweep (the sample, the branch, the final delay) leaves platformDeployed,
\* the last commanded angle of both servos and both LEDs unchanged.
C28_NoSweepNoOutputChange ==
  [][(sketch = "debounced" /\ pc \in {"measure", "decide", "pause"}) =>
       UNCHANGED <<platformDeployed, servo1, servo2, ledGreen, ledRed>>]_vars

C28_Witness ==
  /\ EndOfIteration
  /\ iterTrace = <<"sample", "between">>
  /\ Latest.dep
  /\ platformDeployed
  /\ servo1 = SERVO_EXTENDED
  /\ ShowsDeployed
  /\ Intermediate(Latest.dist)
====
